---- MODULE Spec2Model ----
(***************************************************************************)
(* Model of text_to_input (src/src/lib.rs): the glyph table PixelFont, the *)
(* pattern constructor CharacterPattern::new and the layout engine         *)
(* text_to_pixel_art.  Characters are Unicode scalar values (integers);    *)
(* a text is the sequence of its chars.  Canvas rows and columns keep the  *)
(* source's 0-based indices; strings and glyph rows are 1-based sequences. *)
(***************************************************************************)
EXTENDS Integers, Sequences, FiniteSets, TLC

\* ---------------------------------------------------------------- bounds
\* Longest short text the caller passes in Spec.
MaxLen == 3
\* Number of calls in the call-sequence specification.
MaxCalls == 3
\* Largest row count and row length handed to CharacterPattern::new.
MaxRows == 6
MaxRowLen == 2

\* ------------------------------------------------------ program constants
\* "max: 1000" of PixelArtError::TextTooLong's message.
MaxTextLen == 1000
\* let total_height = 7
total_height == 7
\* content_width += 2 / current_x += 2 for ' '
SpaceWidth == 2

Space == 32
Newline == 10
Char0 == 48
Char1 == 49

\* ------------------------------------------------------- CharacterPattern
PatternPanic(msg) == [panic |-> msg, pixels |-> <<>>, width |-> 0]

\* Mutant: the rows' lengths are not compared with the first row's.
CharacterPattern_new_Ragged(rows) ==
  IF Len(rows) # 5 THEN PatternPanic("Character must have exactly 5 rows")
  ELSE IF Len(rows) = 0 THEN PatternPanic("Must provide at least one row")
  ELSE LET width == Len(rows[1]) IN
       IF ~(width > 0) THEN PatternPanic("Character width must be at least 1")
       ELSE [panic |-> "", pixels |-> rows, width |-> width]

\* CharacterPattern::new: the asserts in source order, then Self {pixels, width}.
CharacterPattern_new(rows) ==
  IF Len(rows) # 5 THEN PatternPanic("Character must have exactly 5 rows")
  ELSE IF Len(rows) = 0 THEN PatternPanic("Must provide at least one row")
  ELSE LET width == Len(rows[1]) IN
       IF ~(width > 0) THEN PatternPanic("Character width must be at least 1")
       ELSE IF \E r \in 1..Len(rows) : Len(rows[r]) # width
            THEN PatternPanic("All rows must have the same width")
            ELSE [panic |-> "", pixels |-> rows, width |-> width]

\* -------------------------------------------------------------- PixelFont
\* The literals of PixelFont::new in source order: <<char, rows>>.
FontData ==
  <<
     <<65, <<<<0,1,1,0>>, <<1,0,0,1>>, <<1,1,1,1>>, <<1,0,0,1>>, <<1,0,0,1>>>>>>,
     <<66, <<<<1,1,1,0>>, <<1,0,0,1>>, <<1,1,1,0>>, <<1,0,0,1>>, <<1,1,1,0>>>>>>,
     <<67, <<<<0,1,1,1>>, <<1,0,0,0>>, <<1,0,0,0>>, <<1,0,0,0>>, <<0,1,1,1>>>>>>,
     <<68, <<<<1,1,1,0>>, <<1,0,0,1>>, <<1,0,0,1>>, <<1,0,0,1>>, <<1,1,1,0>>>>>>,
     <<69, <<<<1,1,1,1>>, <<1,0,0,0>>, <<1,1,1,0>>, <<1,0,0,0>>, <<1,1,1,1>>>>>>,
     <<70, <<<<1,1,1,1>>, <<1,0,0,0>>, <<1,1,1,0>>, <<1,0,0,0>>, <<1,0,0,0>>>>>>,
     <<71, <<<<0,1,1,1>>, <<1,0,0,0>>, <<1,0,1,1>>, <<1,0,0,1>>, <<0,1,1,1>>>>>>,
     <<72, <<<<1,0,0,1>>, <<1,0,0,1>>, <<1,1,1,1>>, <<1,0,0,1>>, <<1,0,0,1>>>>>>,
     <<73, <<<<1>>, <<1>>, <<1>>, <<1>>, <<1>>>>>>,
     <<74, <<<<0,0,0,1>>, <<0,0,0,1>>, <<0,0,0,1>>, <<1,0,0,1>>, <<0,1,1,0>>>>>>,
     <<75, <<<<1,0,0,1>>, <<1,0,1,0>>, <<1,1,0,0>>, <<1,0,1,0>>, <<1,0,0,1>>>>>>,
     <<76, <<<<1,0,0>>, <<1,0,0>>, <<1,0,0>>, <<1,0,0>>, <<1,1,1>>>>>>,
     <<77, <<<<1,0,0,0,1>>, <<1,1,0,1,1>>, <<1,0,1,0,1>>, <<1,0,0,0,1>>, <<1,0,0,0,1>>>>>>,
     <<78, <<<<1,0,0,1>>, <<1,1,0,1>>, <<1,0,1,1>>, <<1,0,0,1>>, <<1,0,0,1>>>>>>,
     <<79, <<<<0,1,1,0>>, <<1,0,0,1>>, <<1,0,0,1>>, <<1,0,0,1>>, <<0,1,1,0>>>>>>,
     <<80, <<<<1,1,1,0>>, <<1,0,0,1>>, <<1,1,1,0>>, <<1,0,0,0>>, <<1,0,0,0>>>>>>,
     <<81, <<<<0,1,1,0>>, <<1,0,0,1>>, <<1,0,0,1>>, <<1,0,1,1>>, <<0,1,1,1>>>>>>,
     <<82, <<<<1,1,1,0>>, <<1,0,0,1>>, <<1,1,1,0>>, <<1,0,1,0>>, <<1,0,0,1>>>>>>,
     <<83, <<<<0,1,1,1>>, <<1,0,0,0>>, <<0,1,1,0>>, <<0,0,0,1>>, <<1,1,1,0>>>>>>,
     <<84, <<<<1,1,1>>, <<0,1,0>>, <<0,1,0>>, <<0,1,0>>, <<0,1,0>>>>>>,
     <<85, <<<<1,0,0,1>>, <<1,0,0,1>>, <<1,0,0,1>>, <<1,0,0,1>>, <<1,1,1,1>>>>>>,
     <<86, <<<<1,0,1>>, <<1,0,1>>, <<1,0,1>>, <<1,0,1>>, <<0,1,0>>>>>>,
     <<87, <<<<1,0,0,0,1>>, <<1,0,0,0,1>>, <<1,0,0,0,1>>, <<1,0,1,0,1>>, <<0,1,0,1,0>>>>>>,
     <<88, <<<<1,0,1>>, <<1,0,1>>, <<0,1,0>>, <<1,0,1>>, <<1,0,1>>>>>>,
     <<89, <<<<1,0,1>>, <<1,0,1>>, <<1,1,1>>, <<0,1,0>>, <<0,1,0>>>>>>,
     <<90, <<<<1,1,1,1>>, <<0,0,0,1>>, <<0,0,1,0>>, <<0,1,0,0>>, <<1,1,1,1>>>>>>,
     <<97, <<<<0,0,0>>, <<0,1,1>>, <<1,0,1>>, <<1,0,1>>, <<0,1,1>>>>>>,
     <<98, <<<<1,0,0>>, <<1,0,0>>, <<1,1,0>>, <<1,0,1>>, <<1,1,0>>>>>>,
     <<99, <<<<0,0,0>>, <<0,1,1>>, <<1,0,0>>, <<1,0,0>>, <<0,1,1>>>>>>,
     <<100, <<<<0,0,1>>, <<0,0,1>>, <<0,1,1>>, <<1,0,1>>, <<0,1,1>>>>>>,
     <<101, <<<<0,0,0>>, <<0,1,1>>, <<1,0,1>>, <<1,1,0>>, <<0,1,1>>>>>>,
     <<102, <<<<0,1,1>>, <<0,1,0>>, <<1,1,1>>, <<0,1,0>>, <<0,1,0>>>>>>,
     <<103, <<<<0,1,1>>, <<1,0,1>>, <<0,1,1>>, <<0,0,1>>, <<1,1,0>>>>>>,
     <<104, <<<<1,0,0>>, <<1,0,0>>, <<1,1,0>>, <<1,0,1>>, <<1,0,1>>>>>>,
     <<105, <<<<1>>, <<0>>, <<1>>, <<1>>, <<1>>>>>>,
     <<106, <<<<0,1>>, <<0,0>>, <<0,1>>, <<0,1>>, <<1,0>>>>>>,
     <<107, <<<<1,0,0>>, <<1,0,0>>, <<1,0,1>>, <<1,1,0>>, <<1,0,1>>>>>>,
     <<108, <<<<1,0>>, <<1,0>>, <<1,0>>, <<1,0>>, <<1,1>>>>>>,
     <<109, <<<<0,0,0,0,0>>, <<1,1,0,1,1>>, <<1,0,1,0,1>>, <<1,0,0,0,1>>, <<1,0,0,0,1>>>>>>,
     <<110, <<<<0,0,0,0>>, <<1,1,1,0>>, <<1,0,0,1>>, <<1,0,0,1>>, <<1,0,0,1>>>>>>,
     <<111, <<<<0,0,0,0>>, <<0,1,1,0>>, <<1,0,0,1>>, <<1,0,0,1>>, <<0,1,1,0>>>>>>,
     <<112, <<<<0,0,0>>, <<1,1,0>>, <<1,0,1>>, <<1,1,0>>, <<1,0,0>>>>>>,
     <<113, <<<<0,0,0>>, <<0,1,1>>, <<1,0,1>>, <<0,1,1>>, <<0,0,1>>>>>>,
     <<114, <<<<0,0,0>>, <<1,0,1>>, <<1,1,0>>, <<1,0,0>>, <<1,0,0>>>>>>,
     <<115, <<<<0,0,0>>, <<0,1,1>>, <<1,1,0>>, <<0,0,1>>, <<1,1,0>>>>>>,
     <<116, <<<<0,1,0>>, <<1,1,1>>, <<0,1,0>>, <<0,1,0>>, <<0,1,1>>>>>>,
     <<117, <<<<0,0,0>>, <<1,0,1>>, <<1,0,1>>, <<1,0,1>>, <<0,1,1>>>>>>,
     <<118, <<<<0,0,0>>, <<1,0,1>>, <<1,0,1>>, <<1,0,1>>, <<0,1,0>>>>>>,
     <<119, <<<<0,0,0,0,0>>, <<1,0,0,0,1>>, <<1,0,0,0,1>>, <<1,0,1,0,1>>, <<0,1,0,1,0>>>>>>,
     <<120, <<<<0,0,0>>, <<1,0,1>>, <<0,1,0>>, <<1,0,1>>, <<1,0,1>>>>>>,
     <<121, <<<<0,0,0>>, <<1,0,1>>, <<1,0,1>>, <<0,1,0>>, <<1,0,0>>>>>>,
     <<122, <<<<0,0,0>>, <<1,1,1>>, <<0,0,1>>, <<0,1,0>>, <<1,1,1>>>>>>,
     <<48, <<<<0,1,1,0>>, <<1,0,0,1>>, <<1,0,0,1>>, <<1,0,0,1>>, <<0,1,1,0>>>>>>,
     <<49, <<<<0,1,0>>, <<1,1,0>>, <<0,1,0>>, <<0,1,0>>, <<1,1,1>>>>>>,
     <<50, <<<<0,1,1,0>>, <<1,0,0,1>>, <<0,0,1,0>>, <<0,1,0,0>>, <<1,1,1,1>>>>>>,
     <<51, <<<<0,1,1,0>>, <<1,0,0,1>>, <<0,0,1,0>>, <<1,0,0,1>>, <<0,1,1,0>>>>>>,
     <<52, <<<<0,1,1,0>>, <<1,0,1,0>>, <<1,1,1,1>>, <<0,0,1,0>>, <<0,0,1,0>>>>>>,
     <<53, <<<<1,1,1,1>>, <<1,0,0,0>>, <<1,1,1,0>>, <<0,0,0,1>>, <<1,1,1,0>>>>>>,
     <<54, <<<<0,1,1,0>>, <<1,0,0,0>>, <<1,1,1,0>>, <<1,0,0,1>>, <<0,1,1,0>>>>>>,
     <<55, <<<<1,1,1,1>>, <<0,0,0,1>>, <<0,0,1,0>>, <<0,1,0,0>>, <<0,1,0,0>>>>>>,
     <<56, <<<<0,1,1,0>>, <<1,0,0,1>>, <<0,1,1,0>>, <<1,0,0,1>>, <<0,1,1,0>>>>>>,
     <<57, <<<<0,1,1,0>>, <<1,0,0,1>>, <<0,1,1,1>>, <<0,0,0,1>>, <<0,1,1,0>>>>>>,
     <<64, <<<<0,1,1,0>>, <<1,0,0,1>>, <<1,0,1,1>>, <<1,0,0,0>>, <<0,1,1,1>>>>>>,
     <<33, <<<<1>>, <<1>>, <<1>>, <<0>>, <<1>>>>>>,
     <<35, <<<<0,1,0,1,0>>, <<1,1,1,1,1>>, <<0,1,0,1,0>>, <<1,1,1,1,1>>, <<0,1,0,1,0>>>>>>,
     <<36, <<<<0,1,1,1,0>>, <<1,0,1,0,0>>, <<0,1,1,1,0>>, <<0,0,1,0,1>>, <<0,1,1,1,0>>>>>>,
     <<37, <<<<1,1,0,0,1>>, <<1,1,0,1,0>>, <<0,0,1,0,0>>, <<0,1,0,1,1>>, <<1,0,0,1,1>>>>>>,
     <<94, <<<<0,1,0>>, <<1,0,1>>, <<0,0,0>>, <<0,0,0>>, <<0,0,0>>>>>>,
     <<38, <<<<0,1,0,0,0>>, <<1,0,1,0,0>>, <<0,1,0,1,0>>, <<1,0,1,0,0>>, <<0,1,0,1,0>>>>>>,
     <<42, <<<<1,0,1>>, <<0,1,0>>, <<1,0,1>>, <<0,0,0>>, <<0,0,0>>>>>>,
     <<40, <<<<0,1>>, <<1,0>>, <<1,0>>, <<1,0>>, <<0,1>>>>>>,
     <<41, <<<<1,0>>, <<0,1>>, <<0,1>>, <<0,1>>, <<1,0>>>>>>,
     <<45, <<<<0,0,0>>, <<0,0,0>>, <<1,1,1>>, <<0,0,0>>, <<0,0,0>>>>>>,
     <<95, <<<<0,0,0>>, <<0,0,0>>, <<0,0,0>>, <<0,0,0>>, <<1,1,1>>>>>>,
     <<61, <<<<0,0,0>>, <<1,1,1>>, <<0,0,0>>, <<1,1,1>>, <<0,0,0>>>>>>,
     <<43, <<<<0,0,0>>, <<0,1,0>>, <<1,1,1>>, <<0,1,0>>, <<0,0,0>>>>>>,
     <<63, <<<<0,1,1,0>>, <<1,0,0,1>>, <<0,0,1,0>>, <<0,0,0,0>>, <<0,0,1,0>>>>>>,
     <<46, <<<<0>>, <<0>>, <<0>>, <<0>>, <<1>>>>>>,
     <<47, <<<<0,0,0,0,1>>, <<0,0,0,1,0>>, <<0,0,1,0,0>>, <<0,1,0,0,0>>, <<1,0,0,0,0>>>>>>,
     <<124, <<<<1>>, <<1>>, <<1>>, <<1>>, <<1>>>>>>,
     <<58, <<<<0>>, <<1>>, <<0>>, <<1>>, <<0>>>>>>,
     <<59, <<<<0,0>>, <<0,1>>, <<0,0>>, <<0,1>>, <<1,1>>>>>>,
     <<44, <<<<0,0>>, <<0,0>>, <<0,0>>, <<0,1>>, <<1,1>>>>>>,
     <<60, <<<<0,0,1>>, <<0,1,0>>, <<1,0,0>>, <<0,1,0>>, <<0,0,1>>>>>>,
     <<62, <<<<1,0,0>>, <<0,1,0>>, <<0,0,1>>, <<0,1,0>>, <<1,0,0>>>>>>,
     <<91, <<<<1,1>>, <<1,0>>, <<1,0>>, <<1,0>>, <<1,1>>>>>>,
     <<93, <<<<1,1>>, <<0,1>>, <<0,1>>, <<0,1>>, <<1,1>>>>>>,
     <<123, <<<<0,1,1>>, <<0,1,0>>, <<1,0,0>>, <<0,1,0>>, <<0,1,1>>>>>>,
     <<125, <<<<1,1,0>>, <<0,1,0>>, <<0,0,1>>, <<0,1,0>>, <<1,1,0>>>>>>,
     <<126, <<<<0,0,0>>, <<0,1,1>>, <<1,1,0>>, <<0,0,0>>, <<0,0,0>>>>>>,
     <<34, <<<<1,0,1>>, <<1,0,1>>, <<0,0,0>>, <<0,0,0>>, <<0,0,0>>>>>>,
     <<39, <<<<1,0,0,0,0>>, <<0,1,0,0,0>>, <<0,0,1,0,0>>, <<0,0,0,1,0>>, <<0,0,0,0,1>>>>>>,
     <<96, <<<<1,0>>, <<0,1>>, <<0,0>>, <<0,0>>, <<0,0>>>>>>
  >>

\* PixelFont::new panics when one of its literals is rejected.
PixelFont_new_panics ==
  \E k \in 1..Len(FontData) : CharacterPattern_new(FontData[k][2]).panic # ""

\* The literal a key ends with: HashMap::insert replaces an earlier value.
LastInsert(c) ==
  CHOOSE k \in 1..Len(FontData) :
    /\ FontData[k][1] = c
    /\ \A j \in (k + 1)..Len(FontData) : FontData[j][1] # c

\* Mutant: the table without its '!' entry.
PixelFont_new_NoBang ==
  [characters |->
     [c \in {FontData[k][1] : k \in 1..Len(FontData)} \ {33} |->
        CharacterPattern_new(FontData[LastInsert(c)][2])]]

\* PixelFont::new: the table after all inserts.
PixelFont_new ==
  [characters |->
     [c \in {FontData[k][1] : k \in 1..Len(FontData)} |->
        CharacterPattern_new(FontData[LastInsert(c)][2])]]

\* Mutant: every character counts as a key.
contains_key_Always(font, ch) == TRUE

contains_key(font, ch) == ch \in DOMAIN font.characters

None == [some |-> FALSE, pattern |-> PatternPanic("")]
Some(p) == [some |-> TRUE, pattern |-> p]

\* PixelFont::get_pattern
get_pattern(font, ch) ==
  IF ch \in DOMAIN font.characters THEN Some(font.characters[ch]) ELSE None

\* ---------------------------------------------------------- PixelArtError
NoRet == [tag |-> "None", out |-> <<>>, ch |-> 0, len |-> 0]
Ok(s) == [tag |-> "Ok", out |-> s, ch |-> 0, len |-> 0]
UnsupportedCharacter(c) ==
  [tag |-> "UnsupportedCharacter", out |-> <<>>, ch |-> c, len |-> 0]
TextTooLong(n) == [tag |-> "TextTooLong", out |-> <<>>, ch |-> 0, len |-> n]

\* ------------------------------------------------------------------ state
VARIABLES
  pc,             \* per call: idle, validate, width, composite, output, done, panic
  text,           \* per call: the argument, as its sequence of chars
  i,              \* per call: index of the running for loop
  content_width,  \* per call
  total_width,    \* per call
  result,         \* per call: the grid, result[row][col], 0-based
  current_x,      \* per call
  lastWrites,     \* per call: the cells the latest composite iteration wrote
  ret,            \* per call: the value returned
  history,        \* the <<text, ret>> of the calls that returned, in order
  rows,           \* the argument of CharacterPattern::new
  pattern,        \* what CharacterPattern::new gave
  chars,          \* supported_characters: the Vec chars
  sc_pc           \* supported_characters: start, collected, sorted

vars == <<pc, text, i, content_width, total_width, result, current_x,
          lastWrites, ret, history, rows, pattern, chars, sc_pc>>

patternVars == <<rows, pattern>>

fontVars == <<chars, sc_pc>>

Calls == DOMAIN pc

\* ----------------------------------------------------------- validate_text
\* Mutant: a character without a glyph is let through, like a space.
validate_char_Lossy(font, ch) == IF ch = Space THEN "continue" ELSE "ok"

\* One iteration of validate_text's loop: "continue", "err" or "ok".
validate_char(font, ch) ==
  IF ch = Space THEN "continue"
  ELSE IF ~contains_key(font, ch) THEN "err"
  ELSE "ok"

\* ------------------------------------------------------- text_to_pixel_art
\* Mutant: a space is looked up like any other character.
char_width_SpaceLookedUp(font, ch) ==
  IF get_pattern(font, ch).some THEN get_pattern(font, ch).pattern.width
  ELSE 0

\* The width one character adds in the width pass and the cursor pass.
char_width(font, ch) ==
  IF ch = Space THEN SpaceWidth
  ELSE IF get_pattern(font, ch).some THEN get_pattern(font, ch).pattern.width
  ELSE 0

\* Mutant: a spacer column after the last character too.
spacing_Always(idx, n) == 1

\* if i < chars.len() - 1 { += 1 }
spacing(idx, n) == IF idx < n - 1 THEN 1 ELSE 0

\* Mutant: the grid starts filled with 1.
new_grid_Ones(w, h) == [r \in 0..(h - 1) |-> [c \in 0..(w - 1) |-> 1]]

\* vec![vec![0u8; total_width]; total_height]
new_grid(w, h) == [r \in 0..(h - 1) |-> [c \in 0..(w - 1) |-> 0]]

\* Mutant: the rows are written without the top padding's offset.
write_cells_NoTopPad(p, x) ==
  {<<row_idx, x + col_idx>> :
     row_idx \in 0..(Len(p.pixels) - 1), col_idx \in 0..(p.width - 1)}

\* The cells the copy loop writes for a pattern at cursor x.
write_cells(p, x) ==
  {<<row_idx + 1, x + col_idx>> :
     row_idx \in 0..(Len(p.pixels) - 1), col_idx \in 0..(p.width - 1)}

InGrid(grid, cell) ==
  /\ cell[1] \in DOMAIN grid
  /\ cell[2] \in DOMAIN grid[cell[1]]

\* Mutant: each glyph row is copied right to left.
copy_pattern_Mirrored(grid, p, x) ==
  [r \in DOMAIN grid |->
     [c \in DOMAIN grid[r] |->
        IF (r - 1) \in 0..(Len(p.pixels) - 1) /\ (c - x) \in 0..(p.width - 1)
        THEN p.pixels[r][p.width - (c - x)]
        ELSE grid[r][c]]]

\* result[row_idx + 1][current_x + col_idx] = pixel, for every pixel.
copy_pattern(grid, p, x) ==
  [r \in DOMAIN grid |->
     [c \in DOMAIN grid[r] |->
        IF (r - 1) \in 0..(Len(p.pixels) - 1) /\ (c - x) \in 0..(p.width - 1)
        THEN p.pixels[r][c - x + 1]
        ELSE grid[r][c]]]

\* Mutant: the two characters swapped.
pixel_char_Swapped(pixel) == IF pixel = 1 THEN Char0 ELSE Char1

\* output.push(if pixel == 1 { '1' } else { '0' })
pixel_char(pixel) == IF pixel = 1 THEN Char1 ELSE Char0

\* The string built from the grid: each row's pixels, then '\n'.
to_output(grid, w, h) ==
  [k \in 1..(h * (w + 1)) |->
     LET r == (k - 1) \div (w + 1)
         c == (k - 1) % (w + 1)
     IN IF c = w THEN Newline ELSE pixel_char(grid[r][c])]

\* ---------------------------------------------------------------- inputs
RECURSIVE TextsOver(_, _)
TextsOver(alphabet, n) ==
  IF n = 0 THEN {<<>>}
  ELSE LET shorter == TextsOver(alphabet, n - 1)
       IN shorter \cup {Append(s, c) : s \in {x \in shorter : Len(x) = n - 1},
                                       c \in alphabet}

\* ' ', 'A' (4 wide), 'M' (5 wide), 'i' (1 wide), and two chars without a glyph.
Alphabet == {32, 65, 77, 105, 233, 241}

\* The chars the tests name as supported: A-Z, a-z, 0-9 and the symbols.
TestedChars ==
  (65..90) \cup (97..122) \cup (48..57) \cup
  {64, 35, 36, 37, 94, 38, 42, 40, 41, 45, 95, 61, 43, 63, 46, 47, 124, 58,
   59, 44, 60, 62, 91, 93, 123, 125, 126, 34, 39, 96, 33}

\* Texts longer than the documented maximum: all 'i', and '\' then all 'i'.
LongTexts ==
  {[k \in 1..(MaxTextLen + 1) |-> 105],
   [k \in 1..(MaxTextLen + 1) |-> IF k = 1 THEN 92 ELSE 105]}

Inputs == TextsOver(Alphabet, MaxLen) \cup {<<c>> : c \in TestedChars}

\* The texts of the call-sequence specification.
SeqInputs == {<<>>, <<105>>, <<241>>, <<65, 32>>, <<32, 105>>}

\* --------------------------------------------------------------- actions
\* Mutant: the empty text is not returned early.
is_empty_Never(txt) == FALSE

\* text.is_empty()
is_empty(txt) == Len(txt) = 0

\* Mutant: the cursor's start is a shared counter of the calls under way.
start_x_Shared == Cardinality({t \in DOMAIN pc : pc[t] # "idle"})

\* Mutant: the cursor's start drifts with the calls made before.
start_x_Stale == 1 + Len(history)

\* let mut current_x = 1
start_x == 1

\* Entry of text_to_pixel_art up to the first loop.
Enter(t, txt) ==
  /\ pc[t] = "idle"
  /\ text' = [text EXCEPT ![t] = txt]
  /\ IF is_empty(txt)
     THEN /\ ret' = [ret EXCEPT ![t] = Ok(<<>>)]
          /\ pc' = [pc EXCEPT ![t] = "done"]
     ELSE /\ ret' = ret
          /\ pc' = [pc EXCEPT ![t] =
                      IF PixelFont_new_panics THEN "panic" ELSE "validate"]
  /\ i' = [i EXCEPT ![t] = 0]
  /\ UNCHANGED <<content_width, total_width, result, current_x, lastWrites,
                 history, patternVars, fontVars>>

Call(t) == \E txt \in Inputs : Enter(t, txt)

CallLong(t) == \E txt \in LongTexts : Enter(t, txt)

CallSeq(t) ==
  /\ Len(history) < MaxCalls
  /\ \E txt \in SeqInputs : Enter(t, txt)

\* validate_text: one loop iteration, or the Ok(()) after the last one.
Validate(t) ==
  /\ pc[t] = "validate"
  /\ IF i[t] < Len(text[t])
     THEN LET ch == text[t][i[t] + 1]
              v == validate_char(PixelFont_new, ch)
          IN IF v = "err"
             THEN /\ ret' = [ret EXCEPT ![t] = UnsupportedCharacter(ch)]
                  /\ pc' = [pc EXCEPT ![t] = "done"]
                  /\ i' = i
             ELSE /\ i' = [i EXCEPT ![t] = @ + 1]
                  /\ UNCHANGED <<pc, ret>>
     ELSE /\ pc' = [pc EXCEPT ![t] = "width"]
          /\ i' = [i EXCEPT ![t] = 0]
          /\ ret' = ret
  /\ content_width' = [content_width EXCEPT ![t] = 0]
  /\ UNCHANGED <<text, total_width, result, current_x, lastWrites, history,
                 patternVars, fontVars>>

\* The width loop: one iteration, or what follows the loop up to the
\* allocation of the grid and the cursor.
Width(t) ==
  /\ pc[t] = "width"
  /\ IF i[t] < Len(text[t])
     THEN /\ content_width' =
               [content_width EXCEPT ![t] =
                  @ + char_width(PixelFont_new, text[t][i[t] + 1])
                    + spacing(i[t], Len(text[t]))]
          /\ i' = [i EXCEPT ![t] = @ + 1]
          /\ UNCHANGED <<pc, total_width, result, current_x>>
     ELSE /\ total_width' = [total_width EXCEPT ![t] = content_width[t] + 2]
          /\ result' = [result EXCEPT ![t] =
                          new_grid(content_width[t] + 2, total_height)]
          /\ current_x' = [current_x EXCEPT ![t] = start_x]
          /\ pc' = [pc EXCEPT ![t] = "composite"]
          /\ i' = [i EXCEPT ![t] = 0]
          /\ content_width' = content_width
  /\ UNCHANGED <<text, lastWrites, ret, history, patternVars, fontVars>>

\* The composite loop: one iteration (a whole glyph), or the loop's end.
\* A write outside the grid is Rust's index panic.
Composite(t) ==
  /\ pc[t] = "composite"
  /\ IF i[t] < Len(text[t])
     THEN LET ch == text[t][i[t] + 1]
              got == get_pattern(PixelFont_new, ch)
              draws == ch # Space /\ got.some
              cells == IF draws THEN write_cells(got.pattern, current_x[t])
                       ELSE {}
          IN IF \E cell \in cells : ~InGrid(result[t], cell)
             THEN /\ pc' = [pc EXCEPT ![t] = "panic"]
                  /\ lastWrites' = [lastWrites EXCEPT ![t] = cells]
                  /\ UNCHANGED <<i, result, current_x>>
             ELSE /\ result' =
                       [result EXCEPT ![t] =
                          IF draws
                          THEN copy_pattern(@, got.pattern, current_x[t])
                          ELSE @]
                  /\ lastWrites' = [lastWrites EXCEPT ![t] = cells]
                  /\ current_x' =
                       [current_x EXCEPT ![t] =
                          @ + char_width(PixelFont_new, ch)
                            + spacing(i[t], Len(text[t]))]
                  /\ i' = [i EXCEPT ![t] = @ + 1]
                  /\ pc' = pc
     ELSE /\ pc' = [pc EXCEPT ![t] = "output"]
          /\ lastWrites' = [lastWrites EXCEPT ![t] = {}]
          /\ UNCHANGED <<i, result, current_x>>
  /\ UNCHANGED <<text, content_width, total_width, ret, history, patternVars, fontVars>>

\* The conversion to a string and Ok(output).
Output(t) ==
  /\ pc[t] = "output"
  /\ ret' = [ret EXCEPT ![t] =
               Ok(to_output(result[t], total_width[t], total_height))]
  /\ pc' = [pc EXCEPT ![t] = "done"]
  /\ UNCHANGED <<text, i, content_width, total_width, result, current_x,
                 lastWrites, history, patternVars, fontVars>>

\* The call's frame is dropped; the caller holds the value.
DropFrame(t) ==
  /\ pc[t] = "done"
  /\ pc' = [pc EXCEPT ![t] = "idle"]
  /\ text' = [text EXCEPT ![t] = <<>>]
  /\ i' = [i EXCEPT ![t] = 0]
  /\ content_width' = [content_width EXCEPT ![t] = 0]
  /\ total_width' = [total_width EXCEPT ![t] = 0]
  /\ result' = [result EXCEPT ![t] = <<>>]
  /\ current_x' = [current_x EXCEPT ![t] = 0]
  /\ lastWrites' = [lastWrites EXCEPT ![t] = {}]
  /\ ret' = [ret EXCEPT ![t] = NoRet]

Return(t) ==
  /\ DropFrame(t)
  /\ UNCHANGED <<history, patternVars, fontVars>>

ReturnSeq(t) ==
  /\ DropFrame(t)
  /\ history' = Append(history, <<text[t], ret[t]>>)
  /\ UNCHANGED <<patternVars, fontVars>>

\* ---------------------------------------------------------- specifications
InitCalls(T) ==
  /\ pc = [t \in T |-> "idle"]
  /\ text = [t \in T |-> <<>>]
  /\ i = [t \in T |-> 0]
  /\ content_width = [t \in T |-> 0]
  /\ total_width = [t \in T |-> 0]
  /\ result = [t \in T |-> <<>>]
  /\ current_x = [t \in T |-> 0]
  /\ lastWrites = [t \in T |-> {}]
  /\ ret = [t \in T |-> NoRet]
  /\ history = <<>>
  /\ chars = <<>>
  /\ sc_pc = "start"

NoPattern == PatternPanic("not called")

Init ==
  /\ InitCalls({1})
  /\ rows = <<>>
  /\ pattern = NoPattern

Next ==
  \/ \E t \in Calls : Call(t)
  \/ \E t \in Calls : Validate(t)
  \/ \E t \in Calls : Width(t)
  \/ \E t \in Calls : Composite(t)
  \/ \E t \in Calls : Output(t)
  \/ \E t \in Calls : Return(t)

Spec == Init /\ [][Next]_vars

\* Calls with texts longer than the documented maximum.
NextLong ==
  \/ \E t \in Calls : CallLong(t)
  \/ \E t \in Calls : Validate(t)
  \/ \E t \in Calls : Width(t)
  \/ \E t \in Calls : Composite(t)
  \/ \E t \in Calls : Output(t)
  \/ \E t \in Calls : Return(t)

SpecLong == Init /\ [][NextLong]_vars

\* Calls one after another, each remembered with its value.
NextSeq ==
  \/ \E t \in Calls : CallSeq(t)
  \/ \E t \in Calls : Validate(t)
  \/ \E t \in Calls : Width(t)
  \/ \E t \in Calls : Composite(t)
  \/ \E t \in Calls : Output(t)
  \/ \E t \in Calls : ReturnSeq(t)

SpecSeq == Init /\ [][NextSeq]_vars

\* Calls from two threads, their steps interleaved; each value remembered.
ConcInputs == {<<105>>, <<241>>, <<32, 65>>}

Running == {t \in Calls : pc[t] # "idle"}

CallConc(t) ==
  /\ Len(history) + Cardinality(Running) < MaxCalls
  /\ \E txt \in ConcInputs : Enter(t, txt)

InitConc ==
  /\ InitCalls({1, 2})
  /\ rows = <<>>
  /\ pattern = NoPattern

NextConc ==
  \/ \E t \in Calls : CallConc(t)
  \/ \E t \in Calls : Validate(t)
  \/ \E t \in Calls : Width(t)
  \/ \E t \in Calls : Composite(t)
  \/ \E t \in Calls : Output(t)
  \/ \E t \in Calls : ReturnSeq(t)

SpecConc == InitConc /\ [][NextConc]_vars

\* ------------------------------------------ PixelFont::supported_characters
\* The keys in the order of their (last) insert.
InsertOrder ==
  LET P == {k \in 1..Len(FontData) : LastInsert(FontData[k][1]) = k}
  IN [j \in 1..Cardinality(P) |->
        FontData[CHOOSE k \in P : Cardinality({q \in P : q < k}) = j - 1][1]]

\* HashMap::keys visits every key once, in an order the map chooses: here the
\* insert order walked with stride a from offset o.
Strides == {1, 5, 92}

Offsets == {0, 1, 17, 46, 92}

KeysOrder(a, o) ==
  LET n == Len(InsertOrder)
  IN [k \in 1..n |-> InsertOrder[((a * (k - 1) + o) % n) + 1]]

\* Mutant: the Vec is returned as collected.
sort_Skipped(s) == s

\* Vec::sort: the elements in ascending order.
sort(s) ==
  [k \in 1..Len(s) |->
     s[CHOOSE j \in 1..Len(s) :
         /\ Cardinality({q \in 1..Len(s) : s[q] < s[j]}) < k
         /\ k <= Cardinality({q \in 1..Len(s) : s[q] <= s[j]})]]

\* self.characters.keys().cloned().collect()
CollectKeys ==
  /\ sc_pc = "start"
  /\ \E a \in Strides : \E o \in Offsets : chars' = KeysOrder(a, o)
  /\ sc_pc' = "collected"
  /\ UNCHANGED <<pc, text, i, content_width, total_width, result, current_x,
                 lastWrites, ret, history, patternVars>>

\* chars.sort(); chars
SortChars ==
  /\ sc_pc = "collected"
  /\ chars' = sort(chars)
  /\ sc_pc' = "sorted"
  /\ UNCHANGED <<pc, text, i, content_width, total_width, result, current_x,
                 lastWrites, ret, history, patternVars>>

\* text_to_pixel_art on one of the characters returned.
CallListed(t) ==
  /\ sc_pc = "sorted"
  /\ \E k \in 1..Len(chars) : Enter(t, <<chars[k]>>)

NextChars ==
  \/ CollectKeys
  \/ SortChars
  \/ \E t \in Calls : CallListed(t)
  \/ \E t \in Calls : Validate(t)
  \/ \E t \in Calls : Width(t)
  \/ \E t \in Calls : Composite(t)
  \/ \E t \in Calls : Output(t)
  \/ \E t \in Calls : Return(t)

SpecChars == Init /\ [][NextChars]_vars

\* ------------------------------------------- CharacterPattern::new alone
\* A row list with rows of the lengths lens, filled as a checkerboard of
\* phase b.
Checkerboard(lens, b) ==
  [r \in DOMAIN lens |-> [j \in 1..lens[r] |-> (r + j + b) % 2]]

\* The argument: 0..MaxRows rows, each of 0..MaxRowLen pixels, or one of
\* the literals PixelFont::new passes.
InitPattern ==
  /\ InitCalls({})
  /\ \/ \E n \in 0..MaxRows : \E lens \in [1..n -> 0..MaxRowLen] :
          \E b \in {0, 1} : rows = Checkerboard(lens, b)
     \/ \E k \in 1..Len(FontData) : rows = FontData[k][2]
  /\ pattern = NoPattern

NewPattern ==
  /\ pattern = NoPattern
  /\ pattern' = CharacterPattern_new(rows)
  /\ UNCHANGED <<pc, text, i, content_width, total_width, result, current_x,
                 lastWrites, ret, history, rows, fontVars>>

NextPattern == NewPattern

SpecPattern == InitPattern /\ [][NextPattern]_vars

\* ------------------------------------------------------ reading a result
\* str::lines as main.rs reads the value: the pieces ended by '\n', and
\* what follows the last '\n' when that is not empty.
lines(out) ==
  LET nl == {k \in 1..Len(out) : out[k] = Newline}
      last == IF nl = {} THEN 0 ELSE CHOOSE k \in nl : \A q \in nl : q <= k
      n == Cardinality(nl) + (IF last < Len(out) THEN 1 ELSE 0)
      before(k) == Cardinality({q \in nl : q < k})
  IN [r \in 1..n |->
        LET first == CHOOSE k \in 1..(Len(out) + 1) :
                       /\ before(k) = r - 1
                       /\ (k = 1 \/ (k - 1) \in nl)
            stop == IF \E q \in nl : q >= first
                    THEN CHOOSE q \in nl : q >= first /\ \A z \in nl : z >= first => q <= z
                    ELSE Len(out) + 1
        IN SubSeq(out, first, stop - 1)]

Done(t) == pc[t] = "done"
Succeeded(t) == pc[t] = "done" /\ ret[t].tag = "Ok"

Keys == DOMAIN PixelFont_new.characters

\* The chars of a text that are neither a space nor a key of the table.
Offenders(txt) ==
  LET K == Keys IN {k \in 1..Len(txt) : txt[k] # Space /\ txt[k] \notin K}

Leftmost(S) == CHOOSE k \in S : \A q \in S : k <= q

\* The width the claims give a character: 2 for a space, else the table's.
GlyphWidth(c) == IF c = Space THEN 2 ELSE PixelFont_new.characters[c].width

RECURSIVE SumWidths(_, _)
SumWidths(txt, n) ==
  IF n = 0 THEN 0 ELSE SumWidths(txt, n - 1) + GlyphWidth(txt[n])

\* ---------------------------------------------------------------- claims
\* C1: every text longer than 1000 fails with TextTooLong carrying the
\* text's length, whatever its characters (the length check comes first).
C1_TooLongFails ==
  \A t \in Calls :
    (Done(t) /\ Len(text[t]) > MaxTextLen) => ret[t] = TextTooLong(Len(text[t]))

\* C2: a text with a character that is neither a space nor a key of the
\* table fails with UnsupportedCharacter naming the leftmost such character,
\* and returns no canvas.
C2_LeftmostUnsupported ==
  \A t \in Calls :
    (Done(t) /\ Offenders(text[t]) # {}) =>
       ret[t] = UnsupportedCharacter(text[t][Leftmost(Offenders(text[t]))])

C2_Witness ==
  \E t \in Calls :
    /\ Done(t)
    /\ text[t] = <<65, 241, 233>>
    /\ ret[t] = UnsupportedCharacter(241)

\* C3: for each character of the supported set, the one-character text
\* renders successfully into exactly 7 rows.
C3_SupportedCharRenders ==
  \A t \in Calls :
    (Done(t) /\ Len(text[t]) = 1 /\ text[t][1] \in TestedChars) =>
       /\ ret[t].tag = "Ok"
       /\ Len(lines(ret[t].out)) = 7

C3_Witness ==
  \E t \in Calls :
    /\ Done(t)
    /\ text[t] = <<33>>
    /\ ret[t].tag = "Ok"
    /\ Len(lines(ret[t].out)) = 7

\* C4: a successful render of n >= 1 characters has exactly 7 rows, each of
\* length 2 + (sum of the characters' widths) + (n - 1).
C4_RowLength ==
  \A t \in Calls :
    (Succeeded(t) /\ Len(text[t]) >= 1) =>
       LET L == lines(ret[t].out)
       IN /\ Len(L) = 7
          /\ \A r \in 1..Len(L) :
               Len(L[r]) = 2 + SumWidths(text[t], Len(text[t])) + (Len(text[t]) - 1)

C4_Witness ==
  \E t \in Calls :
    /\ Succeeded(t)
    /\ text[t] = <<65, 32, 105>>
    /\ \A r \in 1..7 : Len(lines(ret[t].out)[r]) = 2 + (4 + 2 + 1) + 2

\* C5: the empty text returns the empty result, and only the empty text
\* returns it.
C5_EmptyText ==
  \A t \in Calls :
    Done(t) =>
       /\ text[t] = <<>> => ret[t] = Ok(<<>>)
       /\ (ret[t].tag = "Ok" /\ ret[t].out = <<>>) => text[t] = <<>>

C5_Witness ==
  \E t \in Calls :
    /\ Done(t)
    /\ text[t] = <<>>
    /\ ret[t] = Ok(<<>>)

\* The cursor column the claims give the character at index k (0-based).
RECURSIVE X(_, _)
X(txt, k) == IF k = 0 THEN 1 ELSE X(txt, k - 1) + GlyphWidth(txt[k]) + 1

\* C6: a successful render of a non-empty text has a zero border: rows 0
\* and 6 are all 0, and column 0 and the last column of every row are 0.
C6_ZeroBorder ==
  \A t \in Calls :
    (Succeeded(t) /\ text[t] # <<>>) =>
       LET L == lines(ret[t].out)
           g == result[t]
       IN /\ Len(L) = 7
          /\ \A c \in 1..Len(L[1]) : L[1][c] = Char0 /\ L[7][c] = Char0
          /\ \A r \in 1..7 :
               Len(L[r]) >= 2 /\ L[r][1] = Char0 /\ L[r][Len(L[r])] = Char0
          /\ \A c \in DOMAIN g[0] : g[0][c] = 0 /\ g[6][c] = 0
          /\ \A r \in DOMAIN g : g[r][0] = 0 /\ g[r][total_width[t] - 1] = 0

C6_Witness ==
  \E t \in Calls :
    /\ Succeeded(t)
    /\ text[t] = <<32, 65, 32>>
    /\ lines(ret[t].out)[1] = <<48, 48, 48, 48, 48, 48, 48, 48, 48, 48, 48, 48>>
    /\ lines(ret[t].out)[2] = <<48, 48, 48, 48, 48, 49, 49, 48, 48, 48, 48, 48>>

\* C7: in a successful render the glyph of each non-space character at
\* index k fills rows 1..5 at columns x_k .. x_k + width_k - 1 bit for bit,
\* with x_0 = 1 and x_(k+1) = x_k + width_k + 1; glyph rectangles of
\* different characters do not overlap.
C7_GlyphPlacement ==
  \A t \in Calls :
    (Succeeded(t) /\ text[t] # <<>>) =>
       LET txt == text[t]
           L == lines(ret[t].out)
           glyph(k) == PixelFont_new.characters[txt[k + 1]]
           drawn == {k \in 0..(Len(txt) - 1) : txt[k + 1] # Space}
       IN /\ \A k \in drawn :
               \A r \in 1..5 : \A c \in 0..(glyph(k).width - 1) :
                 /\ result[t][r][X(txt, k) + c] = glyph(k).pixels[r][c + 1]
                 /\ L[r + 1][X(txt, k) + c + 1] =
                      (IF glyph(k).pixels[r][c + 1] = 1 THEN Char1 ELSE Char0)
          /\ \A j, k \in drawn :
               j < k => X(txt, j) + glyph(j).width <= X(txt, k)

C7_Witness ==
  \E t \in Calls :
    /\ Succeeded(t)
    /\ text[t] = <<105, 32, 65>>
    /\ \A r \in 1..5 : \A c \in 0..3 :
         result[t][r][6 + c] = PixelFont_new.characters[65].pixels[r][c + 1]

\* C8: two calls with the same text return the same value (the same string
\* or the same error with the same payload), whatever calls came before.
C8_Deterministic ==
  /\ \A a, b \in 1..Len(history) :
       history[a][1] = history[b][1] => history[a][2] = history[b][2]
  /\ \A t \in Calls : \A a \in 1..Len(history) :
       (Done(t) /\ history[a][1] = text[t]) => history[a][2] = ret[t]

C8_Witness ==
  /\ Len(history) = 3
  /\ history[1][1] = <<32, 105>>
  /\ history[2][1] = <<241>>
  /\ history[3][1] = <<32, 105>>
  /\ history[1][2].tag = "Ok"
  /\ history[3][2] = history[1][2]

\* C9: a successful non-empty result is exactly 7 rows, each over '0' and
\* '1' and followed by one newline, a grid bit 1 printed as '1' and a bit 0
\* as '0', with nothing trimmed.
C9_OutputFormat ==
  \A t \in Calls :
    (Succeeded(t) /\ text[t] # <<>>) =>
       LET out == ret[t].out
           L == lines(out)
           g == result[t]
       IN /\ \A k \in 1..Len(out) : out[k] \in {Char0, Char1, Newline}
          /\ Cardinality({k \in 1..Len(out) : out[k] = Newline}) = 7
          /\ out[Len(out)] = Newline
          /\ Len(L) = 7
          /\ \A r \in 0..6 :
               /\ Len(L[r + 1]) = total_width[t]
               /\ \A c \in 0..(total_width[t] - 1) :
                    L[r + 1][c + 1] = (IF g[r][c] = 1 THEN Char1 ELSE Char0)

C9_Witness ==
  \E t \in Calls :
    /\ Succeeded(t)
    /\ text[t] = <<105>>
    /\ ret[t].out = <<48, 48, 48, 10, 48, 49, 48, 10, 48, 48, 48, 10,
                      48, 49, 48, 10, 48, 49, 48, 10, 48, 49, 48, 10,
                      48, 48, 48, 10>>

\* The shape CharacterPattern::new asks of its argument.
WellShaped(rs) ==
  /\ Len(rs) = 5
  /\ Len(rs[1]) >= 1
  /\ \A r \in 1..5 : Len(rs[r]) = Len(rs[1])

\* C10: CharacterPattern::new accepts exactly the lists of 5 rows of one
\* length >= 1 and aborts on any other; an accepted pattern keeps the rows
\* and has their length as its width; every glyph of the table is such a
\* pattern.
C10_PatternInvariant ==
  /\ pattern # NoPattern =>
       /\ (pattern.panic = "") <=> WellShaped(rows)
       /\ pattern.panic = "" =>
            /\ pattern.pixels = rows
            /\ pattern.width >= 1
            /\ \A r \in 1..5 : Len(pattern.pixels[r]) = pattern.width
  /\ \A k \in 1..Len(FontData) :
       (pattern # NoPattern /\ rows = FontData[k][2]) =>
          /\ pattern.panic = ""
          /\ WellShaped(pattern.pixels)
          /\ PixelFont_new.characters[FontData[k][1]] = pattern

C10_Witness ==
  /\ rows = <<<<0, 1>>, <<1, 0>>, <<0, 1>>, <<1, 0>>, <<0, 1>>>>
  /\ pattern = [panic |-> "", pixels |-> rows, width |-> 2]

C10_WitnessGlyph ==
  /\ rows = FontData[1][2]
  /\ pattern = PixelFont_new.characters[65]
  /\ pattern.width = 4

C10_WitnessRejected ==
  /\ Len(rows) = 5
  /\ Len(rows[1]) = 2
  /\ Len(rows[4]) = 1
  /\ pattern.panic = "All rows must have the same width"

\* The locals of one call.
Frame(t) ==
  <<pc[t], text[t], i[t], content_width[t], total_width[t], result[t],
    current_x[t], lastWrites[t], ret[t]>>

\* Every remembered call of the text txt returned v.
SameValue(txt, v) ==
  \A a \in 1..Len(history) : history[a][1] = txt => history[a][2] = v

\* C11: calls from several threads, in any interleaving, are safe without
\* synchronization: a step of one call changes no other call's state, and
\* each call returns what the same text returns in any other call, the ones
\* that ran alone included.
C11_ConcurrentSafe ==
  /\ [](\A t \in Calls : Done(t) => SameValue(text[t], ret[t]))
  /\ [](\A a \in 1..Len(history) : SameValue(history[a][1], history[a][2]))
  /\ [][\A t, u \in Calls :
          (t # u /\ Frame(t)' # Frame(t)) => Frame(u)' = Frame(u)]_vars

C11_Witness ==
  /\ Len(history) = 1
  /\ history[1][1] = <<32, 65>>
  /\ history[1][2].tag = "Ok"
  /\ text[1] = <<32, 65>>
  /\ text[2] = <<32, 65>>
  /\ pc[1] = "done"
  /\ pc[2] = "composite"
  /\ i[2] = 1
  /\ ret[1] = history[1][2]

\* The cells inside the rectangle of a non-space glyph of txt.
InGlyph(txt, r, c) ==
  \E k \in 0..(Len(txt) - 1) :
    /\ txt[k + 1] # Space
    /\ r \in 1..5
    /\ c >= X(txt, k)
    /\ c < X(txt, k) + GlyphWidth(txt[k + 1])

OnlySpaces(txt) == \A k \in 1..Len(txt) : txt[k] = Space

\* What a finished call shows of C12.
C12_State(t) ==
  /\ (Done(t) /\ ret[t].tag = "UnsupportedCharacter") => ret[t].ch # Space
  /\ (Succeeded(t) /\ text[t] # <<>>) =>
       LET L == lines(ret[t].out)
       IN /\ \A r \in DOMAIN result[t] : \A c \in DOMAIN result[t][r] :
               ~InGlyph(text[t], r, c) =>
                  result[t][r][c] = 0 /\ L[r + 1][c + 1] = Char0
          /\ OnlySpaces(text[t]) =>
               /\ Len(L) = 7
               /\ \A r \in 1..7 :
                    /\ Len(L[r]) = 3 * Len(text[t]) + 1
                    /\ \A c \in 1..Len(L[r]) : L[r][c] = Char0

\* What the composite iteration of a space does.
C12_Step(t) ==
  (/\ pc[t] = "composite"
   /\ i[t] < Len(text[t])
   /\ text[t][i[t] + 1] = Space
   /\ i'[t] = i[t] + 1) =>
     /\ result'[t] = result[t]
     /\ lastWrites'[t] = {}
     /\ current_x'[t] =
          current_x[t] + 2 + (IF i[t] < Len(text[t]) - 1 THEN 1 ELSE 0)

\* C12: a space is never reported as unsupported; it advances the cursor by
\* 2 and writes no bits.  Every cell outside the rectangle of a non-space
\* glyph is 0, and a text of n >= 1 spaces renders as 7 all-zero rows of
\* width 3n + 1.
C12_SpaceHandling ==
  /\ [](\A t \in Calls : C12_State(t))
  /\ [][\A t \in Calls : C12_Step(t)]_vars

C12_Witness ==
  \E t \in Calls :
    /\ Succeeded(t)
    /\ text[t] = <<32, 32, 32>>
    /\ current_x[t] = 9
    /\ \A r \in 1..7 :
         lines(ret[t].out)[r] = <<48, 48, 48, 48, 48, 48, 48, 48, 48, 48>>

C12_WitnessMixed ==
  \E t \in Calls :
    /\ Succeeded(t)
    /\ text[t] = <<105, 32, 105>>
    /\ lines(ret[t].out)[2] = <<48, 49, 48, 48, 48, 48, 49, 48>>

Validated(txt) ==
  LET K == Keys IN \A k \in 1..Len(txt) : txt[k] = Space \/ txt[k] \in K

\* Past validation every character of the text is a space or a key.
C13_State(t) ==
  pc[t] \in {"width", "composite", "output"} =>
     /\ Validated(text[t])
     /\ \A k \in 1..Len(text[t]) :
          text[t][k] # Space => get_pattern(PixelFont_new, text[t][k]).some

\* A width iteration adds the character's own width; a composite iteration
\* of a non-space character writes that character's own glyph, all of it.
C13_Step(t) ==
  LET ch == text[t][i[t] + 1]
      sp == IF i[t] < Len(text[t]) - 1 THEN 1 ELSE 0
  IN /\ (pc[t] = "width" /\ i'[t] = i[t] + 1) =>
          /\ content_width'[t] = content_width[t] + GlyphWidth(ch) + sp
          /\ content_width'[t] - content_width[t] - sp >= 1
     /\ (pc[t] = "composite" /\ i'[t] = i[t] + 1 /\ ch # Space) =>
          /\ Cardinality(lastWrites'[t]) = 5 * PixelFont_new.characters[ch].width
          /\ \A cell \in lastWrites'[t] :
               result'[t][cell[1]][cell[2]] =
                 PixelFont_new.characters[ch].pixels[cell[1]][cell[2] - current_x[t] + 1]

\* C13: validation is complete before the width pass and the composite pass,
\* so every character they see is a space or a key of the table: the lookup
\* never misses, no character is skipped with width 0 and no bits, and no
\* other glyph is drawn in its place.
C13_ValidatedBeforeLayout ==
  /\ [](\A t \in Calls : C13_State(t))
  /\ [][\A t \in Calls :
          (pc[t] \in {"width", "composite"} /\ i[t] < Len(text[t])) => C13_Step(t)]_vars

C13_Witness ==
  \E t \in Calls :
    /\ pc[t] = "composite"
    /\ text[t] = <<65, 32, 77>>
    /\ i[t] = 3
    /\ Cardinality(lastWrites[t]) = 25
    /\ content_width[t] = 13

\* The writes of the latest composite iteration are inside the padding.
C14_State(t) ==
  /\ pc[t] # "panic"
  /\ pc[t] \in {"composite", "output"} =>
       /\ \A cell \in lastWrites[t] :
            /\ cell[1] \in 1..5
            /\ cell[2] \in 1..(total_width[t] - 2)
            /\ InGrid(result[t], cell)
       /\ current_x[t] >= 1
       /\ current_x[t] <= total_width[t] - 1
  /\ pc[t] = "output" =>
       /\ current_x[t] = total_width[t] - 1
       /\ current_x[t] = content_width[t] + 1

\* C14: in the composite pass every write has its row in 1..5 and its column
\* in 1..total_width - 2; the cursor never decreases and ends at
\* total_width - 1; the call never aborts on an index out of range.
C14_WritesInBounds ==
  /\ [](\A t \in Calls : C14_State(t))
  /\ [][\A t \in Calls :
          (pc[t] = "composite" /\ pc'[t] \in {"composite", "output"}) =>
             current_x'[t] >= current_x[t]]_vars

C14_Witness ==
  \E t \in Calls :
    /\ pc[t] = "output"
    /\ text[t] = <<77, 105, 32>>
    /\ total_width[t] = 12
    /\ current_x[t] = 11

\* The characters get_pattern is asked about: Latin-1.
ProbeChars == 0..255

Listed(c) == \E k \in 1..Len(chars) : chars[k] = c

\* C15: supported_characters returns the keys of the table in strictly
\* ascending order without duplicates; a character is in the list exactly
\* when get_pattern finds a pattern for it (so ' ' and 'ñ' are not listed),
\* and every listed character renders successfully.
C15_SupportedCharacters ==
  /\ sc_pc = "sorted" =>
       /\ \A k \in 1..(Len(chars) - 1) : chars[k] < chars[k + 1]
       /\ {chars[k] : k \in 1..Len(chars)} = Keys
       /\ LET font == PixelFont_new
          IN \A c \in ProbeChars : Listed(c) <=> get_pattern(font, c).some
       /\ ~Listed(Space)
       /\ ~Listed(241)
  /\ \A t \in Calls :
       (sc_pc = "sorted" /\ Done(t)) => (Listed(text[t][1]) /\ ret[t].tag = "Ok")

C15_Witness ==
  /\ sc_pc = "sorted"
  /\ Len(chars) = 93
  /\ chars[1] = 33
  /\ chars[93] = 126
  /\ \E t \in Calls : Done(t) /\ text[t] = <<126>> /\ ret[t].tag = "Ok"

C15_WitnessUnsorted ==
  /\ sc_pc = "collected"
  /\ chars[1] = 96
  /\ chars[2] = 39
====
